---- MODULE Spec2Model ----
(***************************************************************************)
(* ScopeLock: the project-status classifier (lib/projectStatus.ts and      *)
(* lib/types.ts), the project detail page (app/projects/[id]/page.tsx)     *)
(* that gates feature creation on the open-feature count, and the          *)
(* dashboard (app/app/page.tsx) that lists the projects by status.         *)
(***************************************************************************)
EXTENDS Integers, Sequences, FiniteSets, TLC

(***************************************************************************)
(* Bounds of the model.                                                    *)
(***************************************************************************)
\* longest feature array handed to the classifier
MaxLen == 3
\* largest feature limit handed to the classifier
MaxLimit == 3
\* limits below 1 handed to the classifier: 0, -1, ..., -NegLimit
NegLimit == 1
\* rows the features table ever holds for the project
MaxFeatures == 2
\* largest feature_limit of the project shown by the detail page
MaxFeatureLimit == 2
\* user actions and auth events one page instance goes through
MaxCalls == 2
\* handler calls awaiting the store at one time
MaxOps == 2
\* rows the projects table ever holds
MaxProjects == 4
\* features of one project in the store the dashboard reads
MaxProjectFeatures == 1
\* user actions and auth events one dashboard instance goes through
MaxDashboardCalls == 1
\* characters typed into the feature_limit input of the create-project form
MaxInputLen == 2

(***************************************************************************)
(* JavaScript values, as far as the classifier looks at them.              *)
(***************************************************************************)
Undefined == [kind |-> "undefined"]
\* a truthy value that is not an array
NotArray == [kind |-> "object"]
Arr(s) == [kind |-> "array", items |-> s]
Num(n) == [kind |-> "number", n |-> n]
\* a null entry of an array
NullElem == [kind |-> "null"]

FeatureStatus == {"planned", "in_progress", "done"}
ProjectStatus == {"Planning", "In Progress", "Blocked", "Completed"}

\* the value a call produced: a ProjectStatusInfo, or a thrown TypeError
StatusInfo(s, c, t) == [kind |-> "return", status |-> s, color |-> c, textColor |-> t]
TypeError == [kind |-> "throw", error |-> "TypeError"]
Pending == [kind |-> "pending"]

\* !x
JsNot(x) == x.kind \in {"undefined", "null"} \/ (x.kind = "number" /\ x.n = 0)
\* Array.isArray(x)
IsArray(x) == x.kind = "array"
\* reading f.status throws on null and undefined
ReadsStatus(f) == f.kind \notin {"null", "undefined"}
\* features.filter(f => f.status !== 'done')
OpenFeatures(items) == SelectSeq(items, LAMBDA f : f.status # "done")

(***************************************************************************)
(* lib/projectStatus.ts: the classifier the project detail page uses.      *)
(***************************************************************************)
\* a slip: the threshold taken as exclusive
Mut_ExclusiveThreshold(features, featureLimit) ==
    LET fs == IF JsNot(features) \/ ~IsArray(features) THEN <<>> ELSE features.items
        lim == IF JsNot(featureLimit) \/ featureLimit.n < 1 THEN 1 ELSE featureLimit.n
    IN  IF \E i \in DOMAIN fs : ~ReadsStatus(fs[i]) THEN TypeError
        ELSE LET totalFeatures == Len(fs)
                 openFeaturesCount == Len(OpenFeatures(fs))
             IN  IF totalFeatures = 0
                   THEN StatusInfo("Planning", "bg-blue-100", "text-blue-800")
                 ELSE IF openFeaturesCount = 0
                   THEN StatusInfo("Completed", "bg-green-100", "text-green-800")
                 ELSE IF openFeaturesCount > lim
                   THEN StatusInfo("Blocked", "bg-red-100", "text-red-800")
                 ELSE StatusInfo("In Progress", "bg-yellow-100", "text-yellow-800")

\* a slip: Blocked decided before Completed, on the limit as given
Mut_BlockedFirst(features, featureLimit) ==
    LET fs == IF JsNot(features) \/ ~IsArray(features) THEN <<>> ELSE features.items
        lim == IF JsNot(featureLimit) \/ featureLimit.n < 1 THEN 1 ELSE featureLimit.n
    IN  IF \E i \in DOMAIN fs : ~ReadsStatus(fs[i]) THEN TypeError
        ELSE LET totalFeatures == Len(fs)
                 openFeaturesCount == Len(OpenFeatures(fs))
             IN  IF totalFeatures = 0
                   THEN StatusInfo("Planning", "bg-blue-100", "text-blue-800")
                 ELSE IF featureLimit.kind = "number" /\ openFeaturesCount >= featureLimit.n
                   THEN StatusInfo("Blocked", "bg-red-100", "text-red-800")
                 ELSE IF openFeaturesCount = 0
                   THEN StatusInfo("Completed", "bg-green-100", "text-green-800")
                 ELSE IF openFeaturesCount >= lim
                   THEN StatusInfo("Blocked", "bg-red-100", "text-red-800")
                 ELSE StatusInfo("In Progress", "bg-yellow-100", "text-yellow-800")

\* a slip: the empty project not told apart from the finished one
Mut_NoPlanning(features, featureLimit) ==
    LET fs == IF JsNot(features) \/ ~IsArray(features) THEN <<>> ELSE features.items
        lim == IF JsNot(featureLimit) \/ featureLimit.n < 1 THEN 1 ELSE featureLimit.n
    IN  IF \E i \in DOMAIN fs : ~ReadsStatus(fs[i]) THEN TypeError
        ELSE LET openFeaturesCount == Len(OpenFeatures(fs))
             IN  IF openFeaturesCount = 0
                   THEN StatusInfo("Completed", "bg-green-100", "text-green-800")
                 ELSE IF openFeaturesCount >= lim
                   THEN StatusInfo("Blocked", "bg-red-100", "text-red-800")
                 ELSE StatusInfo("In Progress", "bg-yellow-100", "text-yellow-800")

\* a slip: the limit counted against the total, not the open features
Mut_TotalAgainstLimit(features, featureLimit) ==
    LET fs == IF JsNot(features) \/ ~IsArray(features) THEN <<>> ELSE features.items
        lim == IF JsNot(featureLimit) \/ featureLimit.n < 1 THEN 1 ELSE featureLimit.n
    IN  IF \E i \in DOMAIN fs : ~ReadsStatus(fs[i]) THEN TypeError
        ELSE LET totalFeatures == Len(fs)
                 openFeaturesCount == Len(OpenFeatures(fs))
             IN  IF totalFeatures = 0
                   THEN StatusInfo("Planning", "bg-blue-100", "text-blue-800")
                 ELSE IF openFeaturesCount = 0
                   THEN StatusInfo("Completed", "bg-green-100", "text-green-800")
                 ELSE IF totalFeatures >= lim
                   THEN StatusInfo("Blocked", "bg-red-100", "text-red-800")
                 ELSE StatusInfo("In Progress", "bg-yellow-100", "text-yellow-800")

\* a slip: the inputs used as given, neither validated nor clamped
Mut_NoValidation(features, featureLimit) ==
    IF ~IsArray(features) THEN TypeError
    ELSE LET fs == features.items
             blocked(n) == featureLimit.kind = "number" /\ n >= featureLimit.n
         IN  IF \E i \in DOMAIN fs : ~ReadsStatus(fs[i]) THEN TypeError
             ELSE LET totalFeatures == Len(fs)
                      openFeaturesCount == Len(OpenFeatures(fs))
                  IN  IF totalFeatures = 0
                        THEN StatusInfo("Planning", "bg-blue-100", "text-blue-800")
                      ELSE IF openFeaturesCount = 0
                        THEN StatusInfo("Completed", "bg-green-100", "text-green-800")
                      ELSE IF blocked(openFeaturesCount)
                        THEN StatusInfo("Blocked", "bg-red-100", "text-red-800")
                      ELSE StatusInfo("In Progress", "bg-yellow-100", "text-yellow-800")

\* a slip: a feature in progress not counted as open
Mut_PlannedOnlyOpen(features, featureLimit) ==
    LET fs == IF JsNot(features) \/ ~IsArray(features) THEN <<>> ELSE features.items
        lim == IF JsNot(featureLimit) \/ featureLimit.n < 1 THEN 1 ELSE featureLimit.n
    IN  IF \E i \in DOMAIN fs : ~ReadsStatus(fs[i]) THEN TypeError
        ELSE LET totalFeatures == Len(fs)
                 openFeaturesCount == Len(SelectSeq(fs, LAMBDA f : f.status = "planned"))
             IN  IF totalFeatures = 0
                   THEN StatusInfo("Planning", "bg-blue-100", "text-blue-800")
                 ELSE IF openFeaturesCount = 0
                   THEN StatusInfo("Completed", "bg-green-100", "text-green-800")
                 ELSE IF openFeaturesCount >= lim
                   THEN StatusInfo("Blocked", "bg-red-100", "text-red-800")
                 ELSE StatusInfo("In Progress", "bg-yellow-100", "text-yellow-800")

computeProjectStatus(features, featureLimit) ==
    LET \* if (!features || !Array.isArray(features)) features = []
        fs == IF JsNot(features) \/ ~IsArray(features) THEN <<>> ELSE features.items
        \* if (!featureLimit || featureLimit < 1) featureLimit = 1
        lim == IF JsNot(featureLimit) \/ featureLimit.n < 1 THEN 1 ELSE featureLimit.n
    IN  \* the filter runs before any return, and reads .status of every entry
        IF \E i \in DOMAIN fs : ~ReadsStatus(fs[i]) THEN TypeError
        ELSE LET totalFeatures == Len(fs)
                 openFeaturesCount == Len(OpenFeatures(fs))
             IN  IF totalFeatures = 0
                   THEN StatusInfo("Planning", "bg-blue-100", "text-blue-800")
                 ELSE IF openFeaturesCount = 0
                   THEN StatusInfo("Completed", "bg-green-100", "text-green-800")
                 ELSE IF openFeaturesCount >= lim
                   THEN StatusInfo("Blocked", "bg-red-100", "text-red-800")
                 ELSE StatusInfo("In Progress", "bg-yellow-100", "text-yellow-800")

(***************************************************************************)
(* lib/types.ts: the classifier the dashboard uses. It returns the bare    *)
(* status, validates nothing and decides Blocked first.                    *)
(***************************************************************************)
Status(s) == [kind |-> "return", status |-> s]

\* a slip: the comparison of isBlocked turned around
Mut_types_isBlocked_Reversed(fs, featureLimit) ==
    featureLimit.kind = "number" /\ Len(OpenFeatures(fs)) <= featureLimit.n

\* const isBlocked = openFeaturesCount >= featureLimit; a comparison with
\* undefined is false
types_isBlocked(fs, featureLimit) ==
    featureLimit.kind = "number" /\ Len(OpenFeatures(fs)) >= featureLimit.n

\* const allFeaturesDone = features.length > 0 && openFeaturesCount === 0
types_allFeaturesDone(fs) == Len(fs) > 0 /\ Len(OpenFeatures(fs)) = 0

\* a slip: the threshold of isBlocked taken as exclusive
Mut_types_ExclusiveThreshold(features, featureLimit) ==
    IF ~IsArray(features) THEN TypeError
    ELSE LET fs == features.items
         IN  IF \E i \in DOMAIN fs : ~ReadsStatus(fs[i]) THEN TypeError
             ELSE IF featureLimit.kind = "number"
                        /\ Len(OpenFeatures(fs)) > featureLimit.n THEN Status("Blocked")
                  ELSE IF types_allFeaturesDone(fs) THEN Status("Completed")
                  ELSE IF Len(fs) > 0 THEN Status("In Progress")
                  ELSE Status("Planning")

types_computeProjectStatus(features, featureLimit) ==
    \* features.filter on a value that is no array throws
    IF ~IsArray(features) THEN TypeError
    ELSE LET fs == features.items
         IN  IF \E i \in DOMAIN fs : ~ReadsStatus(fs[i]) THEN TypeError
             ELSE IF types_isBlocked(fs, featureLimit) THEN Status("Blocked")
                  ELSE IF types_allFeaturesDone(fs) THEN Status("Completed")
                  ELSE IF Len(fs) > 0 THEN Status("In Progress")
                  ELSE Status("Planning")

\* the same function with the checks of lines 36 and 37 in the other order
types_CompletedFirst(features, featureLimit) ==
    IF ~IsArray(features) THEN TypeError
    ELSE LET fs == features.items
         IN  IF \E i \in DOMAIN fs : ~ReadsStatus(fs[i]) THEN TypeError
             ELSE IF types_allFeaturesDone(fs) THEN Status("Completed")
                  ELSE IF types_isBlocked(fs, featureLimit) THEN Status("Blocked")
                  ELSE IF Len(fs) > 0 THEN Status("In Progress")
                  ELSE Status("Planning")

(***************************************************************************)
(* State.                                                                  *)
(***************************************************************************)
VARIABLES
    \* a classifier call on its own
    args,             \* the arguments: [features, featureLimit]
    ret,              \* what lib/projectStatus.ts returned for args
    retTypes,         \* what lib/types.ts returned for args
    \* the data store and the identity provider
    dbProject,        \* the row of the projects table the page is about
    dbFeatures,       \* its rows of the features table, oldest first
    nextId,           \* the id the next inserted row gets
    \* useState of ProjectDetail
    user,
    loading,
    project,
    features,
    featuresLoading,
    featuresError,
    formData,
    formSubmitting,
    formError,
    \* the rest of the page instance
    checked,          \* checkUser has resolved
    pushed,           \* the route router.push was given in the last step
    alerted,          \* the text alert was given in the last step
    ops,              \* the handler calls awaiting the store
    calls,            \* user actions and auth events so far
    finished,         \* the handler call or auth event of the last step
    \* the dashboard (app/app/page.tsx) and the tables it reads
    page,             \* the component that is mounted
    dbProjects,       \* the rows of the projects table, oldest first
    dbProjectFeatures, \* the rows of the features table, of every project
    \* useState of App; user, loading and the form are the variables above
    projects,
    projectFeatures,
    projectsLoading,
    projectsError

clsVars == <<args, ret, retTypes>>
dbVars == <<dbProject, dbFeatures, nextId>>
formVars == <<formData, formSubmitting, formError>>
pageVars == <<user, loading, project, features, featuresLoading, featuresError,
              formData, formSubmitting, formError, checked, pushed, alerted, ops, calls,
              finished>>
dashVars == <<page, dbProjects, dbProjectFeatures, projects, projectFeatures,
              projectsLoading, projectsError>>
vars == <<args, ret, retTypes, dbProject, dbFeatures, nextId, user, loading,
          project, features, featuresLoading, featuresError, formData, formSubmitting,
          formError, checked, pushed, alerted, ops, calls, finished,
          page, dbProjects, dbProjectFeatures, projects, projectFeatures,
          projectsLoading, projectsError>>

Null == [kind |-> "null"]
NoText == "null"
TheUser == "u1"
Feature(i, s) == [kind |-> "feature", id |-> i, status |-> s]
Project(n) == [kind |-> "project", id |-> "p1", feature_limit |-> n]
EmptyForm == [title |-> "", status |-> "planned"]
ScopeLockedText == "Scope locked - mark a feature done to add another."

RECURSIVE Reverse(_)
Reverse(s) == IF s = <<>> THEN <<>> ELSE Append(Reverse(Tail(s)), Head(s))

\* one handler call between its awaits
NoOp == [id |-> 0, kind |-> "none", stage |-> "done", fid |-> 0, status |-> "planned",
         outcome |-> "none", data |-> <<>>, locked |-> FALSE, wasOpen |-> FALSE,
         exact |-> FALSE]

(***************************************************************************)
(* The page before anything has happened.                                  *)
(***************************************************************************)
PageInit ==
    /\ user = NoText
    /\ loading = TRUE
    /\ project = Null
    /\ features = <<>>
    /\ featuresLoading = FALSE
    /\ featuresError = NoText
    /\ formData = EmptyForm
    /\ formSubmitting = FALSE
    /\ formError = NoText
    /\ checked = FALSE
    /\ pushed = NoText
    /\ alerted = NoText
    /\ ops = {}
    /\ calls = 0
    /\ finished = NoOp

\* the dashboard is not mounted
DashboardIdle ==
    /\ page = "/projects/[id]"
    /\ dbProjects = <<>>
    /\ dbProjectFeatures = <<>>
    /\ projects = <<>>
    /\ projectFeatures = <<>>
    /\ projectsLoading = FALSE
    /\ projectsError = NoText

\* the store as earlier visits left it: any rows up to the bound, a limit >= 1
DbInit ==
    /\ dbProject \in {Project(n) : n \in 1..MaxFeatureLimit}
    /\ \E k \in 0..MaxFeatures :
          /\ dbFeatures \in {s \in [1..k -> {Feature(i, st) : i \in 1..k, st \in FeatureStatus}] :
                                \A i \in 1..k : s[i].id = i}
          /\ nextId = k + 1

(***************************************************************************)
(* The classifier on its own: every input of the bounded sets, then the    *)
(* two implementations applied to it.                                      *)
(***************************************************************************)
RECURSIVE SeqsUpTo(_, _)
SeqsUpTo(S, n) ==
    IF n = 0 THEN {<<>>}
    ELSE LET shorter == SeqsUpTo(S, n - 1)
         IN  shorter \cup {Append(s, x) : s \in {t \in shorter : Len(t) = n - 1}, x \in S}

FeatureElems == {[kind |-> "feature", status |-> s] : s \in FeatureStatus}
\* arrays of features
FeatureSeqs == SeqsUpTo(FeatureElems, MaxLen)
\* every features argument: arrays (null entries included), absent, not an array
FeaturesArgs ==
    {Arr(s) : s \in SeqsUpTo(FeatureElems \cup {NullElem}, MaxLen)}
        \cup {Undefined, NullElem, NotArray}
\* every featureLimit argument: an integer, or absent
LimitArgs == {Num(n) : n \in (0 - NegLimit)..MaxLimit} \cup {Undefined}

InitClassify ==
    /\ args \in [features : FeaturesArgs, featureLimit : LimitArgs]
    /\ ret = Pending
    /\ retTypes = Pending
    /\ dbProject = Project(1)
    /\ dbFeatures = <<>>
    /\ nextId = 1
    /\ PageInit
    /\ DashboardIdle

CallProjectStatus ==
    /\ ret = Pending
    /\ ret' = computeProjectStatus(args.features, args.featureLimit)
    /\ UNCHANGED <<args, retTypes, dbVars, pageVars, dashVars>>

CallTypes ==
    /\ retTypes = Pending
    /\ retTypes' = types_computeProjectStatus(args.features, args.featureLimit)
    /\ UNCHANGED <<args, ret, dbVars, pageVars, dashVars>>

NextClassify == CallProjectStatus \/ CallTypes

SpecClassify == InitClassify /\ [][NextClassify]_vars

(***************************************************************************)
(* app/projects/[id]/page.tsx: what a render derives from the state.       *)
(***************************************************************************)
openFeaturesCount == Len(OpenFeatures(features))
\* a slip: the features that are done counted against the limit too
Mut_isScopeLocked_CountsDone ==
    IF project # Null THEN Len(features) >= project.feature_limit ELSE FALSE
\* a slip: the threshold of the lock taken as exclusive
Mut_isScopeLocked_Exclusive ==
    IF project # Null THEN openFeaturesCount > project.feature_limit ELSE FALSE
isScopeLocked == IF project # Null THEN openFeaturesCount >= project.feature_limit ELSE FALSE
\* a slip: the page's status taken from the count of all features
Mut_statusInfo_TotalAgainstLimit ==
    IF project # Null
      THEN Mut_TotalAgainstLimit(Arr(features), Num(project.feature_limit))
      ELSE Null
statusInfo ==
    IF project # Null
      THEN computeProjectStatus(Arr(features), Num(project.feature_limit))
      ELSE Null
\* past the "Loading..." and the null returns: the form and the list exist
Rendered == ~loading /\ user # NoText /\ project # Null
\* the submit button's disabled attribute
SubmitDisabled == formSubmitting \/ isScopeLocked
\* the list of features, each with its status select and Delete button
ListShown == Rendered /\ ~featuresLoading /\ featuresError = NoText /\ Len(features) > 0

\* the open rows of the features table
DbOpen == Len(OpenFeatures(dbFeatures))

\* a handler call that starts while others wait is no longer alone with the store
Joined(os) == {[o EXCEPT !.exact = FALSE] : o \in os}
AsReturned(o) == [o EXCEPT !.id = 0, !.fid = 0, !.data = <<>>]
\* a name for a new call that no waiting call bears
FreeId(os) == CHOOSE n \in 1..(MaxOps + 1) :
                 /\ \A o \in os : o.id # n
                 /\ \A m \in 1..(n - 1) : \E o \in os : o.id = m

(***************************************************************************)
(* The store's side of a request. A request the store refuses, or that     *)
(* fails on its way, leaves the store as it is: the handler's step that    *)
(* takes the failure stands for both.                                      *)
(***************************************************************************)
\* features: insert, update ... eq id, delete ... eq id
ApplyWrite(o) ==
    IF o.kind = "create"
      THEN /\ dbFeatures' = Append(dbFeatures, Feature(nextId, o.status))
           /\ nextId' = nextId + 1
    ELSE IF o.kind = "update"
      THEN /\ dbFeatures' = [i \in DOMAIN dbFeatures |->
                                IF dbFeatures[i].id = o.fid
                                  THEN Feature(o.fid, o.status)
                                  ELSE dbFeatures[i]]
           /\ nextId' = nextId
    ELSE /\ dbFeatures' = SelectSeq(dbFeatures, LAMBDA f : f.id # o.fid)
         /\ nextId' = nextId

\* the store applies a write
StoreWrite ==
    \E o \in ops :
        /\ o.kind \in {"create", "update", "delete"}
        /\ o.stage = "sent"
        /\ ApplyWrite(o)
        /\ ops' = (ops \ {o}) \cup {[o EXCEPT !.stage = "replied"]}
        /\ finished' = NoOp
        /\ alerted' = NoText
        /\ pushed' = NoText
        /\ UNCHANGED <<clsVars, dashVars, dbProject, user, loading, project, features,
                       featuresLoading, featuresError, formVars, checked, calls>>

\* features: select ... order by created_at descending
StoreSelectFeatures ==
    \E o \in ops :
        /\ o.stage = "fsent"
        /\ ops' = (ops \ {o}) \cup
                    {[o EXCEPT !.stage = "freplied", !.data = Reverse(dbFeatures)]}
        /\ finished' = NoOp
        /\ alerted' = NoText
        /\ pushed' = NoText
        /\ UNCHANGED <<clsVars, dashVars, dbVars, user, loading, project, features,
                       featuresLoading, featuresError, formVars, checked, calls>>

\* the outcomes of an awaited request: data, an error in the reply, a rejection
Outcomes == {"ok", "error", "throw"}
\* the reply a call at stage st can take: data once the store has answered,
\* a failure at any time
Takes(o, out, asked, answered) ==
    \/ out = "ok" /\ o.stage = answered
    \/ out # "ok" /\ o.stage = asked

(***************************************************************************)
(* Session: checkUser, onAuthStateChange and the effect that fetches.      *)
(***************************************************************************)
\* useEffect on [user, fetchProject, fetchFeatures]: fetchProject(), fetchFeatures()
EffectOps(os) ==
    {[NoOp EXCEPT !.id = FreeId(os), !.kind = "fetchProject", !.stage = "sent"],
     [NoOp EXCEPT !.id = FreeId(os), !.kind = "fetchFeatures", !.stage = "fsent"]}

\* setUser(session.user) and the effect on [user, ...]: it runs when user was
\* null, or when session.user is a new object (fresh)
setUser(fresh) ==
    /\ user' = TheUser
    /\ IF user = NoText \/ fresh
         THEN /\ Cardinality(ops) + 2 <= MaxOps
              /\ ops' = Joined(ops) \cup EffectOps(ops)
              /\ featuresLoading' = TRUE
              /\ featuresError' = NoText
         ELSE UNCHANGED <<ops, featuresLoading, featuresError>>

\* a slip: the session check without its else branch
Mut_checkUser_NoRedirect ==
    \E hasUser \in BOOLEAN, fresh \in BOOLEAN :
        /\ ~checked
        /\ checked' = TRUE
        /\ loading' = FALSE
        /\ finished' = [NoOp EXCEPT !.kind = "checkUser",
                                    !.outcome = IF hasUser THEN "user" ELSE "no user"]
        /\ alerted' = NoText
        /\ pushed' = NoText
        /\ IF hasUser
             THEN setUser(fresh)
             ELSE UNCHANGED <<user, ops, featuresLoading, featuresError>>
        /\ UNCHANGED <<clsVars, dashVars, dbVars, project, features, formVars, calls>>

\* checkUser after its await of getSession; hasUser: the session holds a user
checkUser ==
    \E hasUser \in BOOLEAN, fresh \in BOOLEAN :
        /\ ~checked
        /\ checked' = TRUE
        /\ loading' = FALSE
        /\ finished' = [NoOp EXCEPT !.kind = "checkUser",
                                    !.outcome = IF hasUser THEN "user" ELSE "no user"]
        /\ alerted' = NoText
        /\ IF hasUser
             THEN setUser(fresh) /\ pushed' = NoText
             ELSE /\ pushed' = "/login"
                  /\ UNCHANGED <<user, ops, featuresLoading, featuresError>>
        /\ UNCHANGED <<clsVars, dashVars, dbVars, project, features, formVars, calls>>

\* a slip that is not in the code: the user cleared when the session ends
Mut_onAuthStateChange_ClearsUser ==
    \E hasUser \in BOOLEAN, fresh \in BOOLEAN :
        /\ calls < MaxCalls
        /\ calls' = calls + 1
        /\ finished' = [NoOp EXCEPT !.kind = "authChange",
                                    !.outcome = IF hasUser THEN "user" ELSE "no user"]
        /\ alerted' = NoText
        /\ IF hasUser
             THEN setUser(fresh) /\ pushed' = NoText
             ELSE /\ pushed' = "/login"
                  /\ user' = NoText
                  /\ UNCHANGED <<ops, featuresLoading, featuresError>>
        /\ UNCHANGED <<clsVars, dashVars, dbVars, loading, project, features, formVars, checked>>

\* the callback given to onAuthStateChange; fresh: session.user is a new object
onAuthStateChange ==
    \E hasUser \in BOOLEAN, fresh \in BOOLEAN :
        /\ calls < MaxCalls
        /\ calls' = calls + 1
        /\ finished' = [NoOp EXCEPT !.kind = "authChange",
                                    !.outcome = IF hasUser THEN "user" ELSE "no user"]
        /\ alerted' = NoText
        /\ IF hasUser
             THEN setUser(fresh) /\ pushed' = NoText
             ELSE /\ pushed' = "/login"
                  /\ UNCHANGED <<user, ops, featuresLoading, featuresError>>
        /\ UNCHANGED <<clsVars, dashVars, dbVars, loading, project, features, formVars, checked>>

\* fetchProject after its await; the projects row never changes, so the
\* store's answer is taken as the reply arrives
fetchProjectReplied ==
    \E o \in ops, out \in Outcomes :
        /\ o.kind = "fetchProject" /\ o.stage = "sent"
        /\ ops' = ops \ {o}
        /\ IF out = "ok"
             THEN project' = dbProject /\ pushed' = NoText
             ELSE project' = project /\ pushed' = "/app"
        /\ finished' = AsReturned([o EXCEPT !.outcome = out])
        /\ alerted' = NoText
        /\ UNCHANGED <<clsVars, dashVars, dbVars, user, loading, features, featuresLoading,
                       featuresError, formVars, checked, calls>>

(***************************************************************************)
(* fetchFeatures after its await, and the handler that awaited it.         *)
(***************************************************************************)
\* a slip: handleCreateFeature without its finally
Mut_fetchFeaturesReplied_NoFinally ==
    \E o \in ops, out \in Outcomes :
        /\ Takes(o, out, "fsent", "freplied")
        /\ ops' = ops \ {o}
        /\ IF out = "ok"
             THEN features' = o.data /\ featuresError' = featuresError
             ELSE /\ features' = features
                  /\ featuresError' = IF out = "error" THEN "error.message"
                                      ELSE "Failed to fetch features"
        /\ featuresLoading' = FALSE
        /\ formSubmitting' = formSubmitting
        /\ finished' = AsReturned([o EXCEPT !.outcome = out])
        /\ alerted' = NoText
        /\ pushed' = NoText
        /\ UNCHANGED <<clsVars, dashVars, dbVars, user, loading, project, formData,
                       formError, checked, calls>>

fetchFeaturesReplied ==
    \E o \in ops, out \in Outcomes :
        /\ Takes(o, out, "fsent", "freplied")
        /\ ops' = ops \ {o}
        /\ IF out = "ok"
             THEN features' = o.data /\ featuresError' = featuresError
             ELSE /\ features' = features
                  /\ featuresError' = IF out = "error" THEN "error.message"
                                      ELSE "Failed to fetch features"
        /\ featuresLoading' = FALSE
        \* handleCreateFeature's finally
        /\ formSubmitting' = IF o.kind = "create" THEN FALSE ELSE formSubmitting
        /\ finished' = AsReturned([o EXCEPT !.outcome = out])
        /\ alerted' = NoText
        /\ pushed' = NoText
        /\ UNCHANGED <<clsVars, dashVars, dbVars, user, loading, project, formData,
                       formError, checked, calls>>

(***************************************************************************)
(* The form.                                                               *)
(***************************************************************************)
\* onChange of the title input and of the status select, both disabled under the lock
changeForm ==
    \E st \in FeatureStatus :
        /\ Rendered /\ ~isScopeLocked
        /\ calls < MaxCalls
        /\ calls' = calls + 1
        /\ formData # [title |-> "title", status |-> st]
        /\ formData' = [title |-> "title", status |-> st]
        /\ finished' = NoOp
        /\ UNCHANGED <<clsVars, dashVars, dbVars, user, loading, project, features,
                       featuresLoading, featuresError, formSubmitting, formError, checked,
                       ops>>
        /\ alerted' = NoText
        /\ pushed' = NoText

\* a slip: the insert issued before the lock is looked at
Mut_handleCreateFeature_NoGate ==
    /\ Rendered
    /\ calls < MaxCalls
    /\ (nextId - 1) + Cardinality({o \in ops : o.kind = "create" /\ o.stage = "sent"})
            < MaxFeatures
    /\ Cardinality(ops) < MaxOps
    /\ calls' = calls + 1
    /\ formSubmitting' = TRUE
    /\ formError' = IF isScopeLocked THEN ScopeLockedText ELSE NoText
    /\ ops' = Joined(ops) \cup
                {[NoOp EXCEPT !.id = FreeId(ops), !.kind = "create", !.stage = "sent",
                              !.status = formData.status, !.locked = isScopeLocked]}
    /\ finished' = NoOp
    /\ UNCHANGED <<clsVars, dashVars, dbVars, user, loading, project, features,
                   featuresLoading, featuresError, formData, checked>>
    /\ alerted' = NoText
    /\ pushed' = NoText

\* a slip: a submission refused while an earlier one is still awaited
Mut_handleCreateFeature_OneAtATime ==
    /\ Rendered
    /\ calls < MaxCalls
    /\ calls' = calls + 1
    /\ IF isScopeLocked \/ formSubmitting
         THEN /\ formError' = IF isScopeLocked THEN ScopeLockedText ELSE formError
              /\ formSubmitting' = (formSubmitting /\ ~isScopeLocked)
              /\ ops' = ops
              /\ finished' = [NoOp EXCEPT !.kind = "create", !.stage = "rejected",
                                          !.status = formData.status,
                                          !.locked = isScopeLocked]
         ELSE /\ (nextId - 1)
                    + Cardinality({o \in ops : o.kind = "create" /\ o.stage = "sent"})
                    < MaxFeatures
              /\ Cardinality(ops) < MaxOps
              /\ formSubmitting' = TRUE
              /\ formError' = NoText
              /\ ops' = Joined(ops) \cup
                          {[NoOp EXCEPT !.id = FreeId(ops), !.kind = "create",
                                        !.stage = "sent", !.status = formData.status]}
              /\ finished' = NoOp
    /\ UNCHANGED <<clsVars, dashVars, dbVars, user, loading, project, features,
                   featuresLoading, featuresError, formData, checked>>
    /\ alerted' = NoText
    /\ pushed' = NoText

\* the form's onSubmit, up to its await. A submit event reaches it whether or not
\* the controls are disabled (requestSubmit); its own check is the gate.
handleCreateFeature ==
    /\ Rendered
    /\ calls < MaxCalls
    /\ calls' = calls + 1
    /\ IF isScopeLocked
         THEN /\ formError' = ScopeLockedText
              /\ formSubmitting' = FALSE
              /\ ops' = ops
              /\ finished' = [NoOp EXCEPT !.kind = "create", !.stage = "rejected",
                                          !.status = formData.status, !.locked = TRUE]
         ELSE /\ (nextId - 1)
                    + Cardinality({o \in ops : o.kind = "create" /\ o.stage = "sent"})
                    < MaxFeatures
              /\ Cardinality(ops) < MaxOps
              /\ formSubmitting' = TRUE
              /\ formError' = NoText
              /\ ops' = Joined(ops) \cup
                          {[NoOp EXCEPT !.id = FreeId(ops), !.kind = "create",
                                        !.stage = "sent", !.status = formData.status]}
              /\ finished' = NoOp
    /\ UNCHANGED <<clsVars, dashVars, dbVars, user, loading, project, features,
                   featuresLoading, featuresError, formData, checked>>
    /\ alerted' = NoText
    /\ pushed' = NoText

\* handleCreateFeature, handleUpdateStatus and handleDeleteFeature after the
\* await of their write
writeReplied ==
    \E o \in ops, out \in Outcomes :
        /\ o.kind \in {"create", "update", "delete"}
        /\ Takes(o, out, "sent", "replied")
        /\ IF out = "ok"
             THEN \* create: setFormData(...); all three: await fetchFeatures()
                  /\ formData' = IF o.kind = "create" THEN EmptyForm ELSE formData
                  /\ IF user # NoText
                       THEN /\ ops' = (ops \ {o}) \cup {[o EXCEPT !.stage = "fsent"]}
                            /\ featuresLoading' = TRUE
                            /\ featuresError' = NoText
                            /\ finished' = NoOp
                            /\ formSubmitting' = formSubmitting
                       ELSE /\ ops' = ops \ {o}
                            /\ formSubmitting' = IF o.kind = "create" THEN FALSE
                                                 ELSE formSubmitting
                            /\ finished' = AsReturned([o EXCEPT !.outcome = out])
                            /\ UNCHANGED <<featuresLoading, featuresError>>
                  /\ formError' = formError
                  /\ alerted' = NoText
             ELSE /\ ops' = ops \ {o}
                  /\ finished' = AsReturned([o EXCEPT !.outcome = out])
                  /\ IF o.kind = "create"
                       THEN /\ formError' = IF out = "error" THEN "error.message"
                                            ELSE "Failed to create feature"
                            /\ formSubmitting' = FALSE
                            /\ alerted' = NoText
                       ELSE /\ alerted' =
                                  IF o.kind = "update"
                                    THEN IF out = "error"
                                           THEN "Failed to update feature: error.message"
                                           ELSE "Failed to update feature"
                                    ELSE IF out = "error"
                                           THEN "Failed to delete feature: error.message"
                                           ELSE "Failed to delete feature"
                            /\ UNCHANGED <<formError, formSubmitting>>
                  /\ UNCHANGED <<formData, featuresLoading, featuresError>>
        /\ pushed' = NoText
        /\ UNCHANGED <<clsVars, dashVars, dbVars, user, loading, project, features,
                       checked, calls>>

(***************************************************************************)
(* The list: the status select and the Delete button of a shown feature.   *)
(***************************************************************************)
\* a slip that is not in the code: a done feature not re-opened under the lock
Mut_handleUpdateStatus_Gated ==
    \E i \in DOMAIN features, newStatus \in FeatureStatus :
        /\ ListShown
        /\ calls < MaxCalls
        /\ Cardinality(ops) < MaxOps
        /\ newStatus # features[i].status
        /\ calls' = calls + 1
        /\ IF isScopeLocked /\ features[i].status = "done"
             THEN ops' = ops
             ELSE ops' = Joined(ops) \cup
                    {[NoOp EXCEPT !.id = FreeId(ops), !.kind = "update", !.stage = "sent",
                                  !.fid = features[i].id, !.status = newStatus,
                                  !.locked = isScopeLocked,
                                  !.wasOpen = (features[i].status # "done")]}
        /\ UNCHANGED <<clsVars, dashVars, dbVars, user, loading, project, features,
                       featuresLoading, featuresError, formVars, checked>>
        /\ finished' = NoOp
        /\ alerted' = NoText
        /\ pushed' = NoText

\* onChange of a feature's status select, up to the await
handleUpdateStatus ==
    \E i \in DOMAIN features, newStatus \in FeatureStatus :
        /\ ListShown
        /\ calls < MaxCalls
        /\ Cardinality(ops) < MaxOps
        /\ newStatus # features[i].status
        /\ calls' = calls + 1
        /\ ops' = Joined(ops) \cup
                    {[NoOp EXCEPT !.id = FreeId(ops), !.kind = "update", !.stage = "sent",
                                  !.fid = features[i].id, !.status = newStatus,
                                  !.locked = isScopeLocked,
                                  !.wasOpen = (features[i].status # "done"),
                                  !.exact = /\ ops = {}
                                            /\ DbOpen = dbProject.feature_limit
                                            /\ \E j \in DOMAIN dbFeatures :
                                                  /\ dbFeatures[j].id = features[i].id
                                                  /\ dbFeatures[j].status # "done"]}
        /\ UNCHANGED <<clsVars, dashVars, dbVars, user, loading, project, features,
                       featuresLoading, featuresError, formVars, checked>>
        /\ finished' = NoOp
        /\ alerted' = NoText
        /\ pushed' = NoText

\* onClick of a feature's Delete button, up to the await
handleDeleteFeature ==
    \E i \in DOMAIN features, confirmed \in BOOLEAN :
        /\ ListShown
        /\ calls < MaxCalls
        /\ calls' = calls + 1
        /\ IF confirmed
             THEN /\ Cardinality(ops) < MaxOps
                  /\ ops' = Joined(ops) \cup
                              {[NoOp EXCEPT !.id = FreeId(ops), !.kind = "delete",
                                            !.stage = "sent", !.fid = features[i].id,
                                            !.locked = isScopeLocked]}
                  /\ finished' = NoOp
             ELSE /\ ops' = ops
                  /\ finished' = [NoOp EXCEPT !.kind = "delete", !.stage = "declined"]
        /\ UNCHANGED <<clsVars, dashVars, dbVars, user, loading, project, features,
                       featuresLoading, featuresError, formVars, checked>>
        /\ alerted' = NoText
        /\ pushed' = NoText

(***************************************************************************)
(* The page and its store.                                                 *)
(***************************************************************************)
Init ==
    /\ args = [features |-> Undefined, featureLimit |-> Undefined]
    /\ ret = Pending
    /\ retTypes = Pending
    /\ DbInit
    /\ PageInit
    /\ DashboardIdle

Next ==
    \/ checkUser
    \/ onAuthStateChange
    \/ fetchProjectReplied
    \/ StoreSelectFeatures
    \/ fetchFeaturesReplied
    \/ changeForm
    \/ handleCreateFeature
    \/ StoreWrite
    \/ writeReplied
    \/ handleUpdateStatus
    \/ handleDeleteFeature

Spec == Init /\ [][Next]_vars

(***************************************************************************)
(* The project page whose feature requests are all answered: the store     *)
(* takes every write and every select on features it is sent, and every    *)
(* reply, or failure, reaches the handler that awaits it.                  *)
(***************************************************************************)
SpecLive ==
    /\ Init
    /\ [][Next]_vars
    /\ WF_vars(StoreWrite)
    /\ WF_vars(writeReplied)
    /\ WF_vars(StoreSelectFeatures)
    /\ WF_vars(fetchFeaturesReplied)

(***************************************************************************)
(* The UI path: one page instance whose store starts within the limit,     *)
(* whose requests all succeed, and whose user starts a handler, or is      *)
(* signed in anew, only when no request of the page is under way.          *)
(***************************************************************************)
InitUIPath ==
    /\ Init
    /\ DbOpen <= dbProject.feature_limit

NextUIPath ==
    \/ checkUser
    \/ ops = {} /\ onAuthStateChange
    \/ fetchProjectReplied /\ finished'.outcome = "ok"
    \/ StoreSelectFeatures
    \/ fetchFeaturesReplied /\ finished'.outcome = "ok"
    \/ ops = {} /\ changeForm
    \/ ops = {} /\ handleCreateFeature
    \/ StoreWrite
    \/ writeReplied /\ finished'.outcome \notin {"error", "throw"}
    \/ ops = {} /\ handleUpdateStatus
    \/ ops = {} /\ handleDeleteFeature

SpecUIPath == InitUIPath /\ [][NextUIPath]_vars

(***************************************************************************)
(* app/app/page.tsx: the dashboard, and the tables it reads and writes.    *)
(***************************************************************************)
OtherUser == "u2"
ProjectRow(i, u, n) == [kind |-> "project", id |-> i, user_id |-> u, feature_limit |-> n]
FeatureRow(p, u, s) == [kind |-> "feature", project_id |-> p, user_id |-> u, status |-> s]
App_EmptyForm == [name |-> "", deadline |-> "", feature_limit |-> 1]
ProjectIds == 1..MaxProjects
\* const featuresMap: Record<string, Feature[]> = {}: no project has an entry
NoFeaturesMap == [i \in ProjectIds |-> <<>>]

\* what the dashboard leaves alone: the classifier call, the detail page and
\* its store, and the features table
dashFrame == <<args, ret, retTypes, dbProject, dbFeatures, project, features,
               featuresLoading, featuresError, page, dbProjectFeatures>>

\* one call of fetchProjects, handleCreateProject or handleDeleteProject
\* between its awaits; scope: the user_id its request in flight carries
NoCall == [id |-> 0, kind |-> "none", stage |-> "done", pid |-> 0, scope |-> "none",
           limit |-> 0, data |-> <<>>, outcome |-> "none", foutcome |-> "none"]

RECURSIVE Flatten(_)
Flatten(ss) == IF ss = <<>> THEN <<>> ELSE Head(ss) \o Flatten(Tail(ss))

\* the tables as earlier visits left them, with room for one more project:
\* projects of the user, each with a limit >= 1 and some features, and
\* projects of another user
DashDbInit ==
    \E k \in 0..(MaxProjects - 1) :
        \E owner \in [1..k -> {TheUser, OtherUser}],
           lim \in [1..k -> 1..MaxFeatureLimit],
           fs \in [1..k -> SeqsUpTo(FeatureStatus, MaxProjectFeatures)] :
            /\ \A i \in 1..k : owner[i] = OtherUser => (lim[i] = 1 /\ fs[i] = <<>>)
            /\ dbProjects = [i \in 1..k |-> ProjectRow(i, owner[i], lim[i])]
            /\ dbProjectFeatures =
                  Flatten([i \in 1..k |->
                              [j \in 1..Len(fs[i]) |-> FeatureRow(i, owner[i], fs[i][j])]])
            /\ nextId = k + 1

InitDashboard ==
    /\ args = [features |-> Undefined, featureLimit |-> Undefined]
    /\ ret = Pending
    /\ retTypes = Pending
    /\ dbProject = Project(1)
    /\ dbFeatures = <<>>
    /\ project = Null
    /\ features = <<>>
    /\ featuresLoading = FALSE
    /\ featuresError = NoText
    /\ DashDbInit
    /\ page = "/app"
    /\ user = NoText
    /\ loading = TRUE
    /\ projects = <<>>
    /\ projectFeatures = NoFeaturesMap
    /\ projectsLoading = FALSE
    /\ projectsError = NoText
    /\ formData = App_EmptyForm
    /\ formSubmitting = FALSE
    /\ formError = NoText
    /\ checked = FALSE
    /\ pushed = NoText
    /\ alerted = NoText
    /\ ops = {}
    /\ calls = 0
    /\ finished = NoCall

\* a slip: Planning ranked before In Progress
Mut_statusOrder_PlanningFirst(status) ==
    CASE status = "Blocked" -> 0
      [] status = "Planning" -> 1
      [] status = "In Progress" -> 2
      [] status = "Completed" -> 3

\* const statusOrder: Record<ProjectStatus, number>
statusOrder(status) ==
    CASE status = "Blocked" -> 0
      [] status = "In Progress" -> 1
      [] status = "Planning" -> 2
      [] status = "Completed" -> 3

\* computeProjectStatus(featuresMap[p.id] || [], p.feature_limit)
App_status(p, featuresMap) ==
    types_computeProjectStatus(Arr(featuresMap[p.id]), Num(p.feature_limit)).status

\* a slip: a sort that puts a project before those of its own rank
RECURSIVE Mut_sort_TiesReversed(_, _)
Mut_sort_TiesReversed(list, featuresMap) ==
    IF list = <<>> THEN <<>>
    ELSE LET front == Mut_sort_TiesReversed(SubSeq(list, 1, Len(list) - 1), featuresMap)
             x == list[Len(list)]
             before == Cardinality({i \in DOMAIN front :
                          statusOrder(App_status(front[i], featuresMap))
                            < statusOrder(App_status(x, featuresMap))})
         IN  SubSeq(front, 1, before) \o <<x>> \o SubSeq(front, before + 1, Len(front))

\* projectsList.sort((a, b) => statusOrder[statusA] - statusOrder[statusB]):
\* Array.prototype.sort is stable, so each project goes after those before it
\* in the list whose rank is not greater
RECURSIVE sort(_, _)
sort(list, featuresMap) ==
    IF list = <<>> THEN <<>>
    ELSE LET front == sort(SubSeq(list, 1, Len(list) - 1), featuresMap)
             x == list[Len(list)]
             before == Cardinality({i \in DOMAIN front :
                          statusOrder(App_status(front[i], featuresMap))
                            <= statusOrder(App_status(x, featuresMap))})
         IN  SubSeq(front, 1, before) \o <<x>> \o SubSeq(front, before + 1, Len(front))

\* featuresData grouped by project_id; null or undefined data gives no entry
GroupByProject(featuresData) ==
    [i \in ProjectIds |-> SelectSeq(featuresData, LAMBDA f : f.project_id = i)]

\* past the "Loading..." and the null return
App_Rendered == ~loading /\ user # NoText
\* the list of projects, each with its Delete button
App_ListShown == App_Rendered /\ ~projectsLoading /\ projectsError = NoText
                     /\ Len(projects) > 0
\* the status a shown project is displayed with
DisplayedStatus(i) == App_status(projects[i], projectFeatures)

App_AsReturned(o) == [o EXCEPT !.id = 0, !.data = <<>>]

\* fetchProjects up to its first await: select on projects, eq user_id
App_fetchProjects(o, id) == [o EXCEPT !.stage = "psent", !.scope = id]

\* setUser(session.user) and the effect on [user, fetchProjects]
App_setUser(fresh) ==
    /\ user' = TheUser
    /\ IF user = NoText \/ fresh
         THEN /\ Cardinality(ops) < MaxOps
              /\ ops' = ops \cup {App_fetchProjects(
                                    [NoCall EXCEPT !.id = FreeId(ops),
                                                   !.kind = "fetchProjects"], TheUser)}
              /\ projectsLoading' = TRUE
              /\ projectsError' = NoText
         ELSE UNCHANGED <<ops, projectsLoading, projectsError>>

App_checkUser ==
    \E hasUser \in BOOLEAN, fresh \in BOOLEAN :
        /\ page = "/app"
        /\ ~checked
        /\ checked' = TRUE
        /\ loading' = FALSE
        /\ finished' = [NoCall EXCEPT !.kind = "checkUser",
                                     !.outcome = IF hasUser THEN "user" ELSE "no user"]
        /\ alerted' = NoText
        /\ IF hasUser
             THEN App_setUser(fresh) /\ pushed' = NoText
             ELSE /\ pushed' = "/login"
                  /\ UNCHANGED <<user, ops, projectsLoading, projectsError>>
        /\ UNCHANGED <<dashFrame, nextId, dbProjects, projects, projectFeatures,
                       formVars, calls>>

App_onAuthStateChange ==
    \E hasUser \in BOOLEAN, fresh \in BOOLEAN :
        /\ page = "/app"
        /\ calls < MaxDashboardCalls
        /\ calls' = calls + 1
        /\ finished' = [NoCall EXCEPT !.kind = "authChange",
                                     !.outcome = IF hasUser THEN "user" ELSE "no user"]
        /\ alerted' = NoText
        /\ IF hasUser
             THEN App_setUser(fresh) /\ pushed' = NoText
             ELSE /\ pushed' = "/login"
                  /\ UNCHANGED <<user, ops, projectsLoading, projectsError>>
        /\ UNCHANGED <<dashFrame, nextId, dbProjects, projects, projectFeatures,
                       formVars, loading, checked>>

\* projects: select ... eq user_id ... order by created_at descending
StoreSelectProjects ==
    \E o \in ops :
        /\ page = "/app"
        /\ o.stage = "psent"
        /\ ops' = (ops \ {o}) \cup
                    {[o EXCEPT !.stage = "preplied",
                               !.data = Reverse(SelectSeq(dbProjects,
                                                  LAMBDA r : r.user_id = o.scope))]}
        /\ finished' = NoCall
        /\ alerted' = NoText
        /\ pushed' = NoText
        /\ UNCHANGED <<dashFrame, nextId, dbProjects, user, loading, checked, calls,
                       projects, projectFeatures, projectsLoading, projectsError,
                       formVars>>

\* fetchProjects after the await of its select on projects
fetchProjectsGotProjects ==
    \E o \in ops, out \in Outcomes :
        /\ page = "/app"
        /\ Takes(o, out, "psent", "preplied")
        /\ IF out = "ok"
             THEN \* features: select ... eq user_id
                  /\ ops' = (ops \ {o}) \cup {[o EXCEPT !.stage = "fsent"]}
                  /\ finished' = NoCall
                  /\ UNCHANGED <<projectsError, projectsLoading, formSubmitting>>
             ELSE /\ ops' = ops \ {o}
                  /\ projectsError' = IF out = "error" THEN "error.message"
                                      ELSE "Failed to fetch projects"
                  /\ projectsLoading' = FALSE
                  \* handleCreateProject's finally
                  /\ formSubmitting' = IF o.kind = "createProject" THEN FALSE
                                       ELSE formSubmitting
                  /\ finished' = App_AsReturned([o EXCEPT !.outcome = out])
        /\ alerted' = NoText
        /\ pushed' = NoText
        /\ UNCHANGED <<dashFrame, nextId, dbProjects, user, loading, checked, calls,
                       projects, projectFeatures, formData, formError>>

\* a slip that is not in the code: the error of the features query read and shown
Mut_fetchProjectsReplied_ReadsError ==
    \E o \in ops, out \in Outcomes :
        /\ page = "/app"
        /\ o.stage = "fsent"
        /\ ops' = ops \ {o}
        /\ IF out # "ok"
             THEN /\ projectsError' = IF out = "error" THEN "error.message"
                                      ELSE "Failed to fetch projects"
                  /\ UNCHANGED <<projects, projectFeatures>>
             ELSE LET featuresData == SelectSeq(dbProjectFeatures,
                                               LAMBDA f : f.user_id = o.scope)
                      featuresMap == GroupByProject(featuresData)
                  IN  /\ projectFeatures' = featuresMap
                      /\ projects' = sort(o.data, featuresMap)
                      /\ projectsError' = projectsError
        /\ projectsLoading' = FALSE
        /\ formSubmitting' = IF o.kind = "createProject" THEN FALSE ELSE formSubmitting
        /\ finished' = App_AsReturned([o EXCEPT !.outcome = "ok", !.foutcome = out])
        /\ alerted' = NoText
        /\ pushed' = NoText
        /\ UNCHANGED <<dashFrame, nextId, dbProjects, user, loading, checked, calls,
                       formData, formError>>

\* fetchProjects after the await of its select on features, which the store
\* answers as the reply arrives: the dashboard never writes that table
fetchProjectsReplied ==
    \E o \in ops, out \in Outcomes :
        /\ page = "/app"
        /\ o.stage = "fsent"
        /\ ops' = ops \ {o}
        /\ IF out = "throw"
             THEN /\ projectsError' = "Failed to fetch projects"
                  /\ UNCHANGED <<projects, projectFeatures>>
             ELSE LET \* const { data: featuresData } = ...: the error is not read
                      featuresData ==
                          IF out = "ok"
                            THEN SelectSeq(dbProjectFeatures,
                                           LAMBDA f : f.user_id = o.scope)
                            ELSE <<>>
                      featuresMap == GroupByProject(featuresData)
                  IN  /\ projectFeatures' = featuresMap
                      /\ projects' = sort(o.data, featuresMap)
                      /\ projectsError' = projectsError
        /\ projectsLoading' = FALSE
        /\ formSubmitting' = IF o.kind = "createProject" THEN FALSE ELSE formSubmitting
        /\ finished' = App_AsReturned([o EXCEPT !.outcome = "ok", !.foutcome = out])
        /\ alerted' = NoText
        /\ pushed' = NoText
        /\ UNCHANGED <<dashFrame, nextId, dbProjects, user, loading, checked, calls,
                       formData, formError>>

(***************************************************************************)
(* The create-project form: the onChange of its feature_limit input.       *)
(***************************************************************************)
NaN == [kind |-> "NaN"]
DigitChars == <<"0", "1", "2", "3", "4", "5", "6", "7", "8", "9">>
\* what e.target.value is made of: a sign, digits, a point, a letter
Chars == {"-", ".", "x"} \cup {DigitChars[d + 1] : d \in 0..MaxFeatureLimit}
InputTexts == SeqsUpTo(Chars, MaxInputLen)
IsDigit(c) == \E d \in DOMAIN DigitChars : DigitChars[d] = c
Digit(c) == (CHOOSE d \in DOMAIN DigitChars : DigitChars[d] = c) - 1
\* the digits a text starts with
RECURSIVE LeadingDigits(_)
LeadingDigits(t) ==
    IF t = <<>> \/ ~IsDigit(Head(t)) THEN <<>>
    ELSE <<Head(t)>> \o LeadingDigits(Tail(t))
RECURSIVE ValueOf(_, _)
ValueOf(ds, radix) ==
    IF ds = <<>> THEN 0
    ELSE ValueOf(SubSeq(ds, 1, Len(ds) - 1), radix) * radix + Digit(ds[Len(ds)])
\* parseInt(string) without a radix: an optional sign, "0x" for radix 16, then
\* the digits up to the first character that is none; NaN when there is none
parseInt(t) ==
    LET negative == t # <<>> /\ Head(t) = "-"
        body == IF negative THEN Tail(t) ELSE t
        hex == Len(body) >= 2 /\ body[1] = "0" /\ body[2] = "x"
        ds == LeadingDigits(IF hex THEN SubSeq(body, 3, Len(body)) ELSE body)
        n == ValueOf(ds, IF hex THEN 16 ELSE 10)
    IN  IF ds = <<>> THEN NaN
        ELSE Num(IF negative THEN 0 - n ELSE n)
\* a || b on numbers: NaN and 0 are falsy
JsOr(a, b) == IF a.kind = "NaN" \/ JsNot(a) THEN b ELSE a
\* Math.max(a, b) on two numbers
MathMax(a, b) == IF a.n >= b.n THEN a ELSE b
\* a slip: the lower bound left out
Mut_onChangeFeatureLimit_NoMax(t) == JsOr(parseInt(t), Num(1)).n
\* Math.max(1, parseInt(e.target.value) || 1)
onChangeFeatureLimit(t) == MathMax(Num(1), JsOr(parseInt(t), Num(1))).n

\* what the onChange makes of the texts that can be typed
TypedLimits == {onChangeFeatureLimit(t) : t \in InputTexts}

\* onChange of the feature_limit input, for any text typed; the values the
\* model goes on with are those up to MaxFeatureLimit
App_changeForm ==
    \E n \in TypedLimits :
        /\ page = "/app"
        /\ App_Rendered
        /\ n <= MaxFeatureLimit
        /\ formData' = [formData EXCEPT !.feature_limit = n]
        /\ formData' # formData
        /\ finished' = NoCall
        /\ alerted' = NoText
        /\ pushed' = NoText
        /\ UNCHANGED <<dashFrame, nextId, dbProjects, user, loading, checked, calls, ops,
                       projects, projectFeatures, projectsLoading, projectsError,
                       formSubmitting, formError>>

\* the form's onSubmit, up to its await
handleCreateProject ==
    /\ page = "/app"
    /\ App_Rendered
    /\ calls < MaxDashboardCalls
    /\ Cardinality(ops) < MaxOps
    /\ (nextId - 1)
          + Cardinality({o \in ops : o.kind = "createProject" /\ o.stage = "sent"})
          < MaxProjects
    /\ calls' = calls + 1
    /\ formSubmitting' = TRUE
    /\ formError' = NoText
    /\ ops' = ops \cup {[NoCall EXCEPT !.id = FreeId(ops), !.kind = "createProject",
                                      !.stage = "sent", !.scope = user,
                                      !.limit = formData.feature_limit]}
    /\ finished' = NoCall
    /\ alerted' = NoText
    /\ pushed' = NoText
    /\ UNCHANGED <<dashFrame, nextId, dbProjects, user, loading, checked,
                   projects, projectFeatures, projectsLoading, projectsError, formData>>

\* a slip: the delete issued before the user is asked
Mut_handleDeleteProject_NoConfirm ==
    \E i \in DOMAIN projects, confirmed \in BOOLEAN :
        /\ page = "/app"
        /\ App_ListShown
        /\ calls < MaxDashboardCalls
        /\ calls' = calls + 1
        /\ Cardinality(ops) < MaxOps
        /\ ops' = ops \cup {[NoCall EXCEPT !.id = FreeId(ops), !.kind = "deleteProject",
                                          !.stage = "sent", !.pid = projects[i].id]}
        /\ finished' = IF confirmed THEN NoCall
                       ELSE [NoCall EXCEPT !.kind = "deleteProject", !.stage = "declined"]
        /\ alerted' = NoText
        /\ pushed' = NoText
        /\ UNCHANGED <<dashFrame, nextId, dbProjects, user, loading, checked,
                       projects, projectFeatures, projectsLoading, projectsError,
                       formVars>>

\* onClick of a project's Delete button, up to the await; confirmed: the answer
\* to confirm(...)
handleDeleteProject ==
    \E i \in DOMAIN projects, confirmed \in BOOLEAN :
        /\ page = "/app"
        /\ App_ListShown
        /\ calls < MaxDashboardCalls
        /\ calls' = calls + 1
        /\ IF confirmed
             THEN /\ Cardinality(ops) < MaxOps
                  \* projects: delete ... eq id, and no eq user_id
                  /\ ops' = ops \cup {[NoCall EXCEPT !.id = FreeId(ops),
                                                    !.kind = "deleteProject",
                                                    !.stage = "sent",
                                                    !.pid = projects[i].id]}
                  /\ finished' = NoCall
             ELSE /\ ops' = ops
                  /\ finished' = [NoCall EXCEPT !.kind = "deleteProject",
                                               !.stage = "declined"]
        /\ alerted' = NoText
        /\ pushed' = NoText
        /\ UNCHANGED <<dashFrame, nextId, dbProjects, user, loading, checked,
                       projects, projectFeatures, projectsLoading, projectsError,
                       formVars>>

\* a slip that is not in the code: the form's limit written to the user's rows as
\* the new one is added
Mut_StoreProjectWrite_UpdatesLimit ==
    \E o \in ops :
        /\ page = "/app"
        /\ o.kind \in {"createProject", "deleteProject"}
        /\ o.stage = "sent"
        /\ IF o.kind = "createProject"
             THEN /\ dbProjects' =
                        Append([i \in DOMAIN dbProjects |->
                                   IF dbProjects[i].user_id = o.scope
                                     THEN [dbProjects[i] EXCEPT !.feature_limit = o.limit]
                                     ELSE dbProjects[i]],
                               ProjectRow(nextId, o.scope, o.limit))
                  /\ nextId' = nextId + 1
             ELSE /\ \A j \in DOMAIN dbProjectFeatures :
                        dbProjectFeatures[j].project_id # o.pid
                  /\ dbProjects' =
                        SelectSeq(dbProjects,
                                  LAMBDA r : ~(/\ r.id = o.pid
                                               /\ o.scope \in {"none", r.user_id}))
                  /\ nextId' = nextId
        /\ ops' = (ops \ {o}) \cup {[o EXCEPT !.stage = "replied"]}
        /\ finished' = NoCall
        /\ alerted' = NoText
        /\ pushed' = NoText
        /\ UNCHANGED <<dashFrame, user, loading, checked, calls, projects,
                       projectFeatures, projectsLoading, projectsError, formVars>>

\* the store applies an insert or a delete on projects. A project that rows
\* of features refer to is not deleted (project_id REFERENCES projects(id)):
\* that request fails.
StoreProjectWrite ==
    \E o \in ops :
        /\ page = "/app"
        /\ o.kind \in {"createProject", "deleteProject"}
        /\ o.stage = "sent"
        /\ IF o.kind = "createProject"
             THEN /\ dbProjects' = Append(dbProjects, ProjectRow(nextId, o.scope, o.limit))
                  /\ nextId' = nextId + 1
             ELSE /\ \A j \in DOMAIN dbProjectFeatures :
                        dbProjectFeatures[j].project_id # o.pid
                  /\ dbProjects' =
                        SelectSeq(dbProjects,
                                  LAMBDA r : ~(/\ r.id = o.pid
                                               /\ o.scope \in {"none", r.user_id}))
                  /\ nextId' = nextId
        /\ ops' = (ops \ {o}) \cup {[o EXCEPT !.stage = "replied"]}
        /\ finished' = NoCall
        /\ alerted' = NoText
        /\ pushed' = NoText
        /\ UNCHANGED <<dashFrame, user, loading, checked, calls, projects,
                       projectFeatures, projectsLoading, projectsError, formVars>>

\* handleCreateProject and handleDeleteProject after the await of their write
projectWriteReplied ==
    \E o \in ops, out \in Outcomes :
        /\ page = "/app"
        /\ o.kind \in {"createProject", "deleteProject"}
        /\ Takes(o, out, "sent", "replied")
        /\ IF out = "ok"
             THEN \* create: setFormData(...); both: await fetchProjects()
                  /\ formData' = IF o.kind = "createProject" THEN App_EmptyForm
                                 ELSE formData
                  /\ ops' = (ops \ {o}) \cup {App_fetchProjects(o, user)}
                  /\ projectsLoading' = TRUE
                  /\ projectsError' = NoText
                  /\ finished' = NoCall
                  /\ alerted' = NoText
                  /\ UNCHANGED <<formError, formSubmitting>>
             ELSE /\ ops' = ops \ {o}
                  /\ finished' = App_AsReturned([o EXCEPT !.outcome = out])
                  /\ IF o.kind = "createProject"
                       THEN /\ formError' = IF out = "error" THEN "error.message"
                                            ELSE "Failed to create project"
                            /\ formSubmitting' = FALSE
                            /\ alerted' = NoText
                       ELSE /\ alerted' = IF out = "error"
                                            THEN "Failed to delete project: error.message"
                                            ELSE "Failed to delete project"
                            /\ UNCHANGED <<formError, formSubmitting>>
                  /\ UNCHANGED <<formData, projectsLoading, projectsError>>
        /\ pushed' = NoText
        /\ UNCHANGED <<dashFrame, nextId, dbProjects, user, loading, checked, calls,
                       projects, projectFeatures>>

NextDashboard ==
    \/ App_checkUser
    \/ App_onAuthStateChange
    \/ StoreSelectProjects
    \/ fetchProjectsGotProjects
    \/ fetchProjectsReplied
    \/ App_changeForm
    \/ handleCreateProject
    \/ handleDeleteProject
    \/ StoreProjectWrite
    \/ projectWriteReplied

SpecDashboard == InitDashboard /\ [][NextDashboard]_vars

(***************************************************************************)
(* The application: one of its two pages is mounted.                       *)
(***************************************************************************)
InitApp == Init \/ InitDashboard

NextApp ==
    \/ page = "/projects/[id]" /\ Next
    \/ page = "/app" /\ NextDashboard

SpecApp == InitApp /\ [][NextApp]_vars

(***************************************************************************)
(* Claims about the classifier, checked under SpecClassify.                *)
(***************************************************************************)
\* the features argument is a feature sequence: an array whose entries are features
ArgIsFeatureSeq ==
    /\ args.features.kind = "array"
    /\ \A i \in DOMAIN args.features.items : args.features.items[i].kind = "feature"
ArgTotal == Len(args.features.items)
ArgOpen == Cardinality({i \in DOMAIN args.features.items :
                            args.features.items[i].status # "done"})
ArgLimitIsInt == args.featureLimit.kind = "number"
Gives(r, s) == r.kind = "return" /\ r.status = s

\* C1: for every feature sequence and every integer limit, with at least one
\* open feature and open >= limit (open = limit included), the classifier of
\* lib/projectStatus.ts returns Blocked.
C1_BlockedAtOrOverLimit ==
    (ret # Pending /\ ArgIsFeatureSeq /\ ArgLimitIsInt
        /\ ArgOpen >= 1 /\ ArgOpen >= args.featureLimit.n)
    => Gives(ret, "Blocked")

\* C1's case: the boundary open = limit, classified.
C1_Witness ==
    /\ ret # Pending /\ ArgIsFeatureSeq /\ ArgLimitIsInt
    /\ ArgOpen = 2 /\ args.featureLimit.n = 2 /\ ArgTotal = 3
    /\ Gives(ret, "Blocked")

\* C2: a non-empty feature sequence whose features are all done is Completed,
\* whatever the limit (any integer, below 1 included, or absent).
C2_AllDoneCompleted ==
    (ret # Pending /\ ArgIsFeatureSeq /\ ArgTotal > 0 /\ ArgOpen = 0)
    => Gives(ret, "Completed")

\* C2's case: all done under a limit below 1.
C2_Witness ==
    /\ ret # Pending /\ ArgIsFeatureSeq /\ ArgTotal = 2 /\ ArgOpen = 0
    /\ ArgLimitIsInt /\ args.featureLimit.n = 0
    /\ Gives(ret, "Completed")

\* C3: the empty feature sequence is Planning under every limit N >= 1.
C3_EmptyPlanning ==
    (ret # Pending /\ ArgIsFeatureSeq /\ ArgTotal = 0
        /\ ArgLimitIsInt /\ args.featureLimit.n >= 1)
    => Gives(ret, "Planning")

\* C3's case: the empty sequence classified under a limit of 3.
C3_Witness ==
    /\ ret # Pending /\ ArgIsFeatureSeq /\ ArgTotal = 0
    /\ ArgLimitIsInt /\ args.featureLimit.n = 3
    /\ Gives(ret, "Planning")

\* C4: with 0 < open < limit the classifier returns In Progress.
C4_InProgressUnderLimit ==
    (ret # Pending /\ ArgIsFeatureSeq /\ ArgLimitIsInt
        /\ 0 < ArgOpen /\ ArgOpen < args.featureLimit.n)
    => Gives(ret, "In Progress")

\* C4's case: two open features of three, under a limit of 3.
C4_Witness ==
    /\ ret # Pending /\ ArgIsFeatureSeq /\ ArgLimitIsInt
    /\ ArgOpen = 2 /\ ArgTotal = 3 /\ args.featureLimit.n = 3
    /\ Gives(ret, "In Progress")

\* C5: input normalization. For a feature sequence f, classify(f, L) with L
\* absent, 0 or below 1 equals classify(f, 1); and classify with an absent or
\* non-array features argument equals classify([], L).
C5_Normalization ==
    ret # Pending =>
        /\ (ArgIsFeatureSeq /\ (~ArgLimitIsInt \/ args.featureLimit.n < 1))
            => ret = computeProjectStatus(args.features, Num(1))
        /\ args.features.kind # "array"
            => ret = computeProjectStatus(Arr(<<>>), args.featureLimit)

\* C5's case: one open feature of two under an absent limit, classified as
\* under a limit of 1.
C5_Witness ==
    /\ ret # Pending /\ ArgIsFeatureSeq /\ ArgTotal = 2 /\ ArgOpen = 1
    /\ args.featureLimit = Undefined
    /\ Gives(ret, "Blocked")

\* C6: the classifier is total: for every input it returns one of Planning,
\* In Progress, Blocked, Completed and never reports an error.
C6_Total ==
    ret # Pending => (ret.kind = "return" /\ ret.status \in ProjectStatus)

\* C7: the status depends only on (total, open, limit): every feature
\* sequence with the same total and the same open count classifies as the
\* arguments do under the same limit, in both implementations.
C7_DependsOnCountsOnly ==
    (ArgIsFeatureSeq /\ ArgLimitIsInt) =>
        \A g \in FeatureSeqs :
            (/\ Len(g) = ArgTotal
             /\ Cardinality({i \in DOMAIN g : g[i].status # "done"}) = ArgOpen)
            => /\ ret # Pending
                    => computeProjectStatus(Arr(g), args.featureLimit) = ret
               /\ retTypes # Pending
                    => types_computeProjectStatus(Arr(g), args.featureLimit) = retTypes

\* C7's case: both implementations have classified [in_progress, done,
\* planned], which shares its counts with [planned, planned, done].
C7_Witness ==
    /\ ret # Pending /\ retTypes # Pending /\ ArgLimitIsInt
    /\ args.features = Arr(<<[kind |-> "feature", status |-> "in_progress"],
                             [kind |-> "feature", status |-> "done"],
                             [kind |-> "feature", status |-> "planned"]>>)
    /\ args.featureLimit.n = 3
    /\ Gives(ret, "In Progress") /\ Gives(retTypes, "In Progress")

\* C17: for every feature sequence and every integer limit, lib/types.ts and
\* lib/projectStatus.ts return the same status, unless open = 0 and limit <= 0;
\* so they agree on every input with limit >= 1.
C17_VariantsAgree ==
    (/\ ret # Pending /\ retTypes # Pending
     /\ ArgIsFeatureSeq /\ ArgLimitIsInt
     /\ ~(ArgOpen = 0 /\ args.featureLimit.n <= 0))
    => /\ ret.kind = "return" /\ retTypes.kind = "return"
       /\ ret.status = retTypes.status

\* C17's case: a limit of 0 with an open feature, where the limit is clamped
\* by one implementation and used as given by the other, and both say Blocked.
C17_Witness ==
    /\ ret # Pending /\ retTypes # Pending
    /\ ArgIsFeatureSeq /\ ArgLimitIsInt
    /\ args.featureLimit.n = 0 /\ ArgOpen = 1 /\ ArgTotal = 2
    /\ Gives(ret, "Blocked") /\ Gives(retTypes, "Blocked")

\* C18: in lib/types.ts, for every feature sequence and every limit >= 1,
\* isBlocked and allFeaturesDone are never both true, and the function returns
\* what it would return with the Blocked and Completed checks swapped.
C18_BlockedCompletedExclusive ==
    (ArgIsFeatureSeq /\ ArgLimitIsInt /\ args.featureLimit.n >= 1)
    => /\ ~(/\ types_isBlocked(args.features.items, args.featureLimit)
            /\ types_allFeaturesDone(args.features.items))
       /\ retTypes # Pending
            => retTypes = types_CompletedFirst(args.features, args.featureLimit)

\* C18's case: two features, both done, classified under a limit of 1.
C18_Witness ==
    /\ retTypes # Pending /\ ArgIsFeatureSeq /\ ArgLimitIsInt
    /\ args.featureLimit.n = 1 /\ ArgTotal = 2 /\ ArgOpen = 0
    /\ types_allFeaturesDone(args.features.items)
    /\ ~types_isBlocked(args.features.items, args.featureLimit)
    /\ Gives(retTypes, "Completed")

\* C19: lib/types.ts returns Completed for every non-empty feature sequence
\* whose features are all done, and Planning for the empty sequence, under
\* every integer limit.
C19_TypesCompletedAndPlanning ==
    (retTypes # Pending /\ ArgIsFeatureSeq /\ ArgLimitIsInt)
    => /\ (ArgTotal > 0 /\ ArgOpen = 0) => Gives(retTypes, "Completed")
       /\ ArgTotal = 0 => Gives(retTypes, "Planning")

(***************************************************************************)
(* Claims about the project detail page, checked under Spec.               *)
(***************************************************************************)
\* C9: whenever handleCreateFeature runs while the client-held features have
\* open >= project.feature_limit, no insert is issued (whatever the status of
\* the new feature), formError is set and formSubmitting is back to false.
C9_ScopeLockGate ==
    [][(handleCreateFeature /\ project # Null
            /\ openFeaturesCount >= project.feature_limit)
        => (/\ ops' = ops
            /\ dbFeatures' = dbFeatures
            /\ formError' # NoText
            /\ formSubmitting' = FALSE)]_vars

\* C9's case: handleCreateFeature has just returned at the gate, for a feature
\* that would have been done, the client holding as many open features as the
\* limit allows.
C9_Witness ==
    /\ finished.kind = "create" /\ finished.stage = "rejected"
    /\ finished.status = "done"
    /\ openFeaturesCount >= project.feature_limit
    /\ formError = ScopeLockedText /\ ~formSubmitting
    /\ \A o \in ops : o.kind # "create"

\* a fetch of the project or of its features that is under way
Fetching(o) == o.kind \in {"fetchProject", "fetchFeatures"}
                   \/ o.stage \in {"fsent", "freplied"}

\* C14: whenever checkUser or an auth-state change reports no user, a redirect
\* to /login is issued; and while user is null the page renders nothing of
\* its content and no fetch of the project or of its features is under way
\* or issued.
C14_Unauthenticated ==
    [][/\ (finished'.kind \in {"checkUser", "authChange"} /\ finished'.outcome = "no user")
            => pushed' = "/login"
       /\ user = NoText => (~Rendered /\ \A o \in ops : ~Fetching(o))
       /\ user' = NoText => (~Rendered' /\ \A o \in ops' : ~Fetching(o))]_vars

\* C14's case: the session check found no user, and an auth-state change
\* reports none either: the redirect is issued again, nothing is fetched.
C14_Witness ==
    /\ finished.kind = "authChange" /\ finished.outcome = "no user"
    /\ checked /\ ~loading /\ user = NoText
    /\ pushed = "/login"
    /\ ~Rendered /\ ops = {}

\* C10 as stated: from any scope-locked state, after one open feature is
\* changed to done and the refetch that follows succeeds, isScopeLocked is false.
C10_AnyLockedStateReenabled ==
    [][\A o \in ops :
          (/\ o.kind = "update" /\ o.status = "done" /\ o.locked /\ o.wasOpen
           /\ o.stage = "freplied"
           /\ fetchFeaturesReplied
           /\ finished' = AsReturned([o EXCEPT !.outcome = "ok"]))
          => ~isScopeLocked']_vars

\* C10, amended: from a scope-locked state in which the store holds exactly
\* feature_limit open features and no other request of the page is under way,
\* after one of those open features is changed to done and the refetch that
\* follows succeeds, no other request having been started meanwhile,
\* isScopeLocked is false.
C10_ExactlyAtLimitReenabled ==
    [][\A o \in ops :
          (/\ o.kind = "update" /\ o.status = "done" /\ o.locked /\ o.wasOpen /\ o.exact
           /\ o.stage = "freplied"
           /\ fetchFeaturesReplied
           /\ finished' = AsReturned([o EXCEPT !.outcome = "ok"]))
          => ~isScopeLocked']_vars

\* C10's case: such a change has just returned, its refetch applied, and the
\* form is enabled again.
C10_Witness ==
    /\ finished.kind = "update" /\ finished.status = "done" /\ finished.outcome = "ok"
    /\ finished.stage = "freplied"
    /\ finished.locked /\ finished.wasOpen /\ finished.exact
    /\ Rendered /\ ~isScopeLocked /\ ~SubmitDisabled
    /\ openFeaturesCount = project.feature_limit - 1

(***************************************************************************)
(* Claims about the dashboard, checked under SpecDashboard.                *)
(***************************************************************************)
\* the rank the dashboard is to list a status by
Rank(status) ==
    CASE status = "Blocked" -> 0
      [] status = "In Progress" -> 1
      [] status = "Planning" -> 2
      [] status = "Completed" -> 3

\* a call of fetchProjects, on its own or at the end of a handler, has just
\* returned with both of its queries answered
FetchedProjects ==
    /\ finished.kind \in {"fetchProjects", "createProject", "deleteProject"}
    /\ finished.stage = "fsent"
    /\ finished.outcome = "ok" /\ finished.foutcome = "ok"

C12_StableSort ==
    \A i, j \in DOMAIN projects :
        (i < j /\ DisplayedStatus(i) = DisplayedStatus(j))
            => projects[i].id > projects[j].id

\* C12's case: three projects were returned newest first, Completed, then two
\* that are Blocked; the Blocked ones moved to the front, the newer first.
C12_Witness ==
    /\ FetchedProjects
    /\ Len(projects) = 3
    /\ [i \in 1..3 |-> projects[i].id] = <<2, 1, 3>>
    /\ [i \in 1..3 |-> DisplayedStatus(i)] = <<"Blocked", "Blocked", "Completed">>

\* a request of the dashboard that the store has not answered to the handler yet
InFlight(o) == o.stage \in {"sent", "replied", "psent", "preplied", "fsent"}

\* C13: every request the application issues to the store (select, insert,
\* update, delete, on projects and on features) carries the identifier of the
\* signed-in user.
C13_RequestsScopedByUser ==
    \A o \in ops : InFlight(o) => o.scope = user

\* a call has just returned with one of its store requests failed
Failed(o) == o.outcome \in {"error", "throw"} \/ o.foutcome \in {"error", "throw"}

\* C16: when a store request fails (returns an error or throws), the failure
\* is shown as a message, no request is issued in its place, and the list
\* held by the client and the contents of the form stay as they were.
C16_FailureShownStateUnchanged ==
    [][Failed(finished')
        => /\ projectsError' # NoText \/ formError' # NoText \/ alerted' # NoText
           /\ ops' \subseteq ops
           /\ projects' = projects
           /\ projectFeatures' = projectFeatures
           /\ formData' = formData]_vars

(***************************************************************************)
(* Claims about both pages, checked under SpecApp.                         *)
(***************************************************************************)
\* the user has just declined the confirm(...) of a Delete button
Declined(o) == o.kind \in {"delete", "deleteProject"} /\ o.stage = "declined"

\* C15: a delete request, of a project or of a feature, goes to the store only
\* when the user confirms: if the confirmation is declined no request is
\* sent, nothing is shown, and the state of the client and of the store is
\* unchanged.
C15_DeclinedDeleteChangesNothing ==
    [][Declined(finished')
        => /\ ops' = ops
           /\ alerted' = NoText /\ pushed' = NoText
           /\ UNCHANGED <<dbProject, dbFeatures, nextId, dbProjects, dbProjectFeatures>>
           /\ UNCHANGED <<user, loading, project, features, featuresLoading,
                          featuresError, formData, formSubmitting, formError,
                          projects, projectFeatures, projectsLoading,
                          projectsError>>]_vars

\* C15's case: on the detail page the user has just declined to delete a
\* feature: nothing is under way, and the list and the store still hold it.
C15_Witness ==
    /\ page = "/projects/[id]"
    /\ Declined(finished)
    /\ ops = {}
    /\ Len(features) > 0
    /\ features = Reverse(dbFeatures)

(***************************************************************************)
(* Claims about the UI path, checked under SpecUIPath.                     *)
(***************************************************************************)
\* the store is about to re-open a feature: an update of a feature that was
\* done, to planned or in_progress
Reopening == \E o \in ops : /\ o.kind = "update" /\ o.stage = "sent"
                            /\ o.status # "done" /\ ~o.wasOpen

Started(k) == \E o \in ops' : /\ o.kind = k /\ o.stage = "sent"
                               /\ \A p \in ops : p.id # o.id

\* C21: a create-feature submission that finds the client-held features under
\* the limit issues its insert whether or not an earlier submission is still
\* awaited, and the store applies every insert it is sent, whatever its count of
\* open features: two overlapping submissions both pass the check against
\* the same client-held features and both insert.
C21_ConcurrentCreatesBothInsert ==
    [][/\ (handleCreateFeature /\ ~isScopeLocked) => Started("create")
       /\ \A o \in ops :
             (/\ o.kind = "create" /\ o.stage = "sent"
              /\ o \notin ops'
              /\ [o EXCEPT !.stage = "replied"] \in ops')
             => /\ Len(dbFeatures') = Len(dbFeatures) + 1
                /\ DbOpen' = DbOpen + (IF o.status # "done" THEN 1 ELSE 0)]_vars

\* both inserts of two overlapping submissions applied to a store that was empty,
\* under a limit of one, the client still holding the features it checked
C21_Witness ==
    /\ dbProject.feature_limit = 1
    /\ nextId = 3
    /\ DbOpen = 2
    /\ features = <<>>
    /\ ~isScopeLocked
    /\ Cardinality({o \in ops : o.kind = "create" /\ o.stage = "replied" /\ ~o.locked}) = 2

\* C22: a status update is issued whatever the feature's status, the new status
\* and the lock are, and the store applies it whatever its count of open
\* features is: a done feature can be re-opened while the project is locked.
C22_UpdatesUnconstrained ==
    [][/\ handleUpdateStatus => Started("update")
       /\ \A o \in ops :
             (/\ o.kind = "update" /\ o.stage = "sent"
              /\ o \notin ops'
              /\ [o EXCEPT !.stage = "replied"] \in ops')
             => \A j \in DOMAIN dbFeatures :
                   dbFeatures[j].id = o.fid
                   => /\ j \in DOMAIN dbFeatures'
                      /\ dbFeatures'[j] = Feature(o.fid, o.status)]_vars

\* a done feature re-opened under the lock, and the store now over the limit
C22_Witness ==
    /\ isScopeLocked
    /\ openFeaturesCount = project.feature_limit
    /\ DbOpen = dbProject.feature_limit + 1
    /\ \E o \in ops :
          /\ o.kind = "update" /\ o.stage = "replied"
          /\ o.locked /\ ~o.wasOpen /\ o.status # "done"
          /\ \E j \in DOMAIN dbFeatures : dbFeatures[j] = Feature(o.fid, o.status)
          /\ \E j \in DOMAIN features : features[j] = Feature(o.fid, "done")

\* C25: on the project page, for a project whose feature_limit is at least 1, the
\* status shown is Blocked exactly when the create-feature gate is active
\* (isScopeLocked: the open client-held features reach the limit).
C25_BlockedIffScopeLocked ==
    (project # Null /\ project.feature_limit >= 1)
        => (Gives(statusInfo, "Blocked") <=> isScopeLocked)

\* open client-held features that fill a limit of more than one
C25_Witness ==
    /\ Rendered
    /\ project.feature_limit = MaxFeatureLimit
    /\ openFeaturesCount = MaxFeatureLimit
    /\ isScopeLocked
    /\ Gives(statusInfo, "Blocked")

\* C27: when no request of the page is in flight and the fetchFeatures issued
\* last succeeded, the client-held features are the store's features of the
\* project. No message is left in featuresError only if the fetchFeatures issued
\* last did not fail: each fetchFeatures clears the message as it starts.
C27_ClientEqualsStore ==
    (ops = {} /\ user # NoText /\ ~featuresLoading /\ featuresError = NoText)
        => features = Reverse(dbFeatures)

(***************************************************************************)
(* Claims about the session, on either page.                               *)
(***************************************************************************)
\* C29: an auth-state change that carries no user only issues the redirect to
\* /login: the user state, the client-held projects and features, the forms,
\* the requests under way and the store are as they were, and so user, once
\* set, is never null again.
C29_SignedOutEventOnlyRedirects ==
    [][/\ (finished'.kind = "authChange" /\ finished'.outcome = "no user")
            => /\ pushed' = "/login"
               /\ UNCHANGED <<user, loading, project, features, featuresLoading,
                              featuresError, projects, projectFeatures,
                              projectsLoading, projectsError, formVars, ops,
                              dbVars, dbProjects, dbProjectFeatures>>
       /\ user # NoText => user' # NoText]_vars

\* the event received by a project page that shows its user's features
C29_Witness ==
    /\ finished.kind = "authChange" /\ finished.outcome = "no user"
    /\ pushed = "/login"
    /\ user = TheUser
    /\ Rendered
    /\ features # <<>>

(***************************************************************************)
(* Claims about the dashboard's form and its failed features query.        *)
(***************************************************************************)
\* a call of fetchProjects has just returned, its projects query answered and
\* its features query answered by an error, or by no data
FeaturesQueryFailed ==
    /\ finished.kind \in {"fetchProjects", "createProject", "deleteProject"}
    /\ finished.stage = "fsent"
    /\ finished.outcome = "ok" /\ finished.foutcome = "error"

\* C28: when the projects query succeeds and the features query returns an
\* error or no data, fetchProjects sets no message and alerts nothing, holds
\* the projects as the store returned them, each with no features, and every
\* project whose feature_limit is at least 1 is displayed as Planning.
C28_FeaturesQueryFailureShowsPlanning ==
    [][FeaturesQueryFailed'
         => /\ projectsError' = projectsError
            /\ alerted' = NoText
            /\ ~projectsLoading'
            /\ projectFeatures' = NoFeaturesMap
            /\ \E o \in ops : /\ o.stage = "fsent" /\ o \notin ops'
                               /\ projects' = o.data
            /\ \A i \in DOMAIN projects' :
                  projects'[i].feature_limit >= 1
                     => App_status(projects'[i], projectFeatures') = "Planning"]_vars

\* the case: two projects shown as Planning with no message, one of which
\* has an open feature in the store that fills its limit
C28_Witness ==
    /\ FeaturesQueryFailed
    /\ projectsError = NoText
    /\ Len(projects) >= 2
    /\ \A i \in DOMAIN projects : DisplayedStatus(i) = "Planning"
    /\ \E i \in DOMAIN projects, j \in DOMAIN dbProjectFeatures :
          /\ dbProjectFeatures[j].project_id = projects[i].id
          /\ dbProjectFeatures[j].status # "done"
          /\ projects[i].feature_limit = 1

\* C23: the feature_limit held in the create-project form is an integer of at
\* least 1 in every reachable state, whatever is typed into its input (nothing,
\* what is no number, zero, a negative number), and so is the feature_limit of
\* every insert the form issues and of every row it adds.
C23_FormLimitAtLeastOne ==
    page = "/app"
       => /\ formData.feature_limit \in Nat \ {0}
          /\ \A o \in ops : o.kind = "createProject" => o.limit \in Nat \ {0}
          /\ \A i \in DOMAIN dbProjects : dbProjects[i].feature_limit \in Nat \ {0}

\* a limit typed into the form, inserted, and the form back at 1 with the
\* new project listed
C23_Witness ==
    /\ page = "/app"
    /\ finished.kind = "createProject" /\ finished.foutcome = "ok"
    /\ finished.limit = MaxFeatureLimit
    /\ formData.feature_limit = 1
    /\ dbProjects # <<>>
    /\ dbProjects[Len(dbProjects)].feature_limit = MaxFeatureLimit
    /\ \E i \in DOMAIN projects : projects[i] = dbProjects[Len(dbProjects)]

\* C24: no step of the application changes the feature_limit of a project
\* that exists: the row the project page reads stays as it is, and every row
\* of the projects table that is still there after a step has the
\* feature_limit it had before.
C24_FeatureLimitNeverChanges ==
    [][/\ dbProject' = dbProject
       /\ \A i \in DOMAIN dbProjects, j \in DOMAIN dbProjects' :
             dbProjects'[j].id = dbProjects[i].id
                => dbProjects'[j].feature_limit = dbProjects[i].feature_limit]_vars

\* a project inserted with another limit than the one its user already has
C24_Witness ==
    /\ page = "/app"
    /\ \E o \in ops : o.kind = "createProject" /\ o.stage = "replied"
    /\ Len(dbProjects) >= 2
    /\ dbProjects[Len(dbProjects)] = ProjectRow(nextId - 1, TheUser, MaxFeatureLimit)
    /\ \E i \in DOMAIN dbProjects :
          /\ dbProjects[i].user_id = TheUser
          /\ dbProjects[i].feature_limit < MaxFeatureLimit

(***************************************************************************)
(* Claims about what the project page does in the end.                     *)
(***************************************************************************)
\* the names a call under way can bear
OpIds == 1..(MaxOps + 1)
\* the call of handleCreateFeature that bears the name i awaits a reply
CreatePending(i) == \E o \in ops : o.id = i /\ o.kind = "create"

\* C26: every call of handleCreateFeature ends, given that its requests are
\* answered, and ends with formSubmitting set to false: when the lock rejects it,
\* when the insert fails by an error or an exception, and when the insert
\* succeeds and the refetch has returned.
C26_CreateReturnsFormSubmittingFalse ==
    /\ \A i \in OpIds : CreatePending(i) ~> ~CreatePending(i)
    /\ [][/\ \A i \in OpIds :
                 ((CreatePending(i) /\ ~CreatePending(i)')
                     => (finished'.kind = "create" /\ ~formSubmitting'))
           /\ ((finished'.kind = "create" /\ finished'.stage = "rejected")
                 => ~formSubmitting')]_vars

\* the call ended by an exception, the form free again
C26_Witness ==
    /\ finished.kind = "create" /\ finished.outcome = "throw"
    /\ formError = "Failed to create feature"
    /\ ~formSubmitting
    /\ ops = {}

====
